---- MODULE Spec2Model ----
(***************************************************************************)
(* Model of the CodeLint service (src/code_lint.py) and of fast_power      *)
(* (src/calculate.py).                                                     *)
(*                                                                         *)
(*   Spec     the service: lint_file, lint_code, add_linter, list_linters  *)
(*            called one at a time on a shared registry and file system.   *)
(*   SpecRun  ExternalLinter.run applied to every bounded process outcome. *)
(*   SpecPow  fast_power, one loop iteration per step.                     *)
(*                                                                         *)
(* Python dicts are sequences of <<key, value>> pairs in insertion order.  *)
(* Captured text is a sequence of one-character strings.                   *)
(***************************************************************************)
EXTENDS Integers, Sequences, FiniteSets, TLC

VARIABLES
    linters,    \* CodeLintService.linters: dict name -> ExternalLinter
    fs,         \* the paths that exist on disk
    pc,         \* "idle" | "loop" | "finally" | "returned": where the call is
    call,       \* the running (or last) call and its arguments
    todo,       \* lint_file: the names the for loop has still to visit
    results,    \* lint_file: the results dict built so far
    spawned,    \* lint_file: every process this call started: name, argv, outcome
    ret,        \* what the last call returned or raised
    temp_path,  \* lint_code: the file NamedTemporaryFile created ("" if none)
    lastInv,    \* history: name -> command most recently registered for it
    fp          \* fast_power: its locals and position

vars == <<linters, fs, pc, call, todo, results, spawned, ret, temp_path, lastInv, fp>>

----------------------------------------------------------------------------
(* Bounds *)

MaxSel == 2
MaxTemp == 2
MaxOut == 2
MaxBase == 3
MaxExp == 5
MaxMod == 3

(* Inputs *)

Names == {"pylint", "x", ""}
Commands == {<<>>, <<"pylint", "-E">>, <<"echo">>}
UserPaths == {"/a.py", "/b.py"}
Codes == {"print(1)", "\\ud800"}
Chars == {"E", " ", "\n", "\f"}

TempName(i) == "/tmp/tmp" \o ToString(i) \o ".py"

SeqsUpTo(S, n) == UNION {[1..k -> S] : k \in 0..n}

None == [present |-> FALSE, names |-> <<>>]
Some(names) == [present |-> TRUE, names |-> names]
Selections == {None} \cup {Some(s) : s \in SeqsUpTo(Names, MaxSel)}

----------------------------------------------------------------------------
(* Python dict *)

DictKeys(d) == [i \in 1..Len(d) |-> d[i][1]]
DictHas(d, k) == \E i \in 1..Len(d) : d[i][1] = k
DictGet(d, k) == d[CHOOSE i \in 1..Len(d) : d[i][1] = k][2]
DictSet(d, k, v) ==
    IF DictHas(d, k)
    THEN [i \in 1..Len(d) |-> IF d[i][1] = k THEN <<k, v>> ELSE d[i]]
    ELSE Append(d, <<k, v>>)

Return(v) == [kind |-> "return", value |-> v]
Raise(e) == [kind |-> "raise", value |-> e]

----------------------------------------------------------------------------
(* str.strip and str.splitlines *)

IsSpace(c) == c \in {" ", "\n", "\f"}
IsLineBreak(c) == c \in {"\n", "\f"}

RECURSIVE lstrip(_)
lstrip(s) ==
    IF s # <<>> /\ IsSpace(Head(s)) THEN lstrip(Tail(s)) ELSE s

RECURSIVE rstrip(_)
rstrip(s) ==
    IF s # <<>> /\ IsSpace(s[Len(s)]) THEN rstrip(SubSeq(s, 1, Len(s) - 1)) ELSE s

MutStripLeft(s) == lstrip(s)

strip(s) == rstrip(lstrip(s))

RECURSIVE SplitFrom(_, _, _)
SplitFrom(s, line, acc) ==
    IF s = <<>>
    THEN IF line = <<>> THEN acc ELSE Append(acc, line)
    ELSE IF IsLineBreak(Head(s))
         THEN SplitFrom(Tail(s), <<>>, Append(acc, line))
         ELSE SplitFrom(Tail(s), Append(line, Head(s)), acc)

splitlines(s) == SplitFrom(s, <<>>, <<>>)

----------------------------------------------------------------------------
(* ExternalLinter *)

ExternalLinter(name, command) == [name |-> name, command |-> command]

Argv(linter, filepath) == linter.command \o <<filepath>>

Exited(rc, out, err) ==
    [kind |-> "exited", returncode |-> rc, stdout |-> out, stderr |-> err]
Failed(e) == [kind |-> "exception", error |-> e]

Errors == {"FileNotFoundError", "PermissionError", "UnicodeDecodeError"}

run(linter, filepath, proc) ==
    IF proc.kind = "exception"
    THEN [success |-> FALSE, issues |-> <<>>,
          message |-> <<"Error running ", linter.name, ": ", proc.error>>]
    ELSE IF proc.returncode = 0
         THEN [success |-> TRUE, issues |-> <<>>,
               message |-> <<"No issues found by ", linter.name>>]
         ELSE [success |-> FALSE,
               issues |-> splitlines(strip(proc.stdout \o proc.stderr)),
               message |-> <<linter.name, " found issues">>]

----------------------------------------------------------------------------
(* CodeLintService *)

MutExistsAlways(files, filepath) == TRUE

exists(files, filepath) == filepath \in files

NotFoundReport(filepath) ==
    [success |-> FALSE, message |-> <<"File not found: ", filepath>>]

UnknownResult(name) ==
    [success |-> FALSE, message |-> <<"Unknown linter: ", name>>]

Resolve(sel, registry) ==
    IF sel.present /\ sel.names # <<>> THEN sel.names ELSE DictKeys(registry)

GetSuccess(r) == IF "success" \in DOMAIN r THEN r.success ELSE FALSE

MutAnySuccess(res) == \E i \in 1..Len(res) : GetSuccess(res[i][2])

AllSuccess(res) == \A i \in 1..Len(res) : GetSuccess(res[i][2])

Report(filepath, res) ==
    [success |-> AllSuccess(res), results |-> res,
     message |-> <<"Linting completed for ", filepath>>]

Encodable(code) == code # "\\ud800"

NewTemp(files) == TempName(CHOOSE i \in 1..MaxTemp :
                      /\ TempName(i) \notin files
                      /\ \A j \in 1..(i - 1) : TempName(j) \in files)

ServiceProcs ==
    {Exited(0, <<>>, <<>>), Exited(1, <<"E">>, <<>>), Failed("FileNotFoundError")}

NoCall == [op |-> "none"]

FpIdle == [pc |-> "idle"]

Init ==
    /\ linters = <<<<"pylint", ExternalLinter("pylint", <<"pylint", "-E">>)>>>>
    /\ fs = {"/a.py"}
    /\ pc = "idle"
    /\ call = NoCall
    /\ todo = <<>>
    /\ results = <<>>
    /\ spawned = <<>>
    /\ ret = Return(<<>>)
    /\ temp_path = ""
    /\ lastInv = [n \in {"pylint"} |-> <<"pylint", "-E">>]
    /\ fp = FpIdle

MutAddLinterKeepsExisting(registry, name, command) ==
    IF DictHas(registry, name)
    THEN registry
    ELSE DictSet(registry, name, ExternalLinter(name, command))

add_linter(registry, name, command) ==
    DictSet(registry, name, ExternalLinter(name, command))

list_linters(registry) == DictKeys(registry)

MutStopOnUnknown(names) == <<>>

AfterUnknown(names) == Tail(names)

LintFile ==
    /\ pc = "idle"
    /\ \E filepath \in UserPaths, sel \in Selections :
        /\ call' = [op |-> "lint_file", filepath |-> filepath, sel |-> sel,
                    exists |-> filepath \in fs]
        /\ results' = <<>>
        /\ spawned' = <<>>
        /\ IF ~ exists(fs, filepath)
           THEN /\ ret' = Return(NotFoundReport(filepath))
                /\ todo' = <<>>
                /\ pc' = "returned"
           ELSE /\ ret' = [kind |-> "pending"]
                /\ todo' = Resolve(sel, linters)
                /\ pc' = "loop"
    /\ UNCHANGED <<linters, fs, temp_path, lastInv, fp>>

LintCode ==
    /\ pc = "idle"
    /\ \E i \in 1..MaxTemp : TempName(i) \notin fs
    /\ \E code \in Codes, sel \in Selections :
        LET t == NewTemp(fs) IN
        /\ fs' = fs \cup {t}
        /\ temp_path' = t
        /\ results' = <<>>
        /\ spawned' = <<>>
        /\ call' = [op |-> "lint_code", code |-> code, filepath |-> t, sel |-> sel,
                    exists |-> Encodable(code), gone |-> FALSE]
        /\ IF ~ Encodable(code)
           THEN /\ ret' = Raise("UnicodeEncodeError")
                /\ todo' = <<>>
                /\ pc' = "returned"
           ELSE IF ~ exists(fs \cup {t}, t)
           THEN /\ ret' = Return(NotFoundReport(t))
                /\ todo' = <<>>
                /\ pc' = "finally"
           ELSE /\ ret' = [kind |-> "pending"]
                /\ todo' = Resolve(sel, linters)
                /\ pc' = "loop"
    /\ UNCHANGED <<linters, lastInv, fp>>

LoopStep ==
    /\ pc = "loop"
    /\ todo # <<>>
    /\ LET name == Head(todo) IN
        IF ~ DictHas(linters, name)
        THEN /\ results' = DictSet(results, name, UnknownResult(name))
             /\ todo' = AfterUnknown(todo)
             /\ UNCHANGED <<spawned, fs>>
        ELSE \E proc \in ServiceProcs, removed \in BOOLEAN :
             LET linter == DictGet(linters, name) IN
             /\ removed => proc.kind = "exited"
             /\ results' = DictSet(results, name, run(linter, call.filepath, proc))
             /\ spawned' = Append(spawned, [name |-> name,
                                            argv |-> Argv(linter, call.filepath),
                                            proc |-> proc])
             /\ fs' = IF removed THEN fs \ {call.filepath} ELSE fs
             /\ todo' = Tail(todo)
    /\ UNCHANGED <<linters, pc, call, ret, temp_path, lastInv, fp>>

LintFileReturn ==
    /\ pc = "loop"
    /\ todo = <<>>
    /\ ret' = Return(Report(call.filepath, results))
    /\ pc' = IF call.op = "lint_code" THEN "finally" ELSE "returned"
    /\ UNCHANGED <<linters, fs, call, todo, results, spawned, temp_path, lastInv, fp>>

LintCodeFinally ==
    /\ pc = "finally"
    /\ call' = [call EXCEPT !.gone = temp_path \notin fs]
    /\ IF temp_path \in fs
       THEN /\ fs' = fs \ {temp_path}
            /\ UNCHANGED ret
       ELSE /\ ret' = Raise("FileNotFoundError")
            /\ UNCHANGED fs
    /\ pc' = "returned"
    /\ UNCHANGED <<linters, todo, results, spawned, temp_path, lastInv, fp>>

AddLinter ==
    /\ pc = "idle"
    /\ \E name \in Names, command \in Commands :
        /\ linters' = add_linter(linters, name, command)
        /\ lastInv' = [n \in DOMAIN lastInv \cup {name} |->
                          IF n = name THEN command ELSE lastInv[n]]
        /\ call' = [op |-> "add_linter", name |-> name, command |-> command,
                    before |-> DictKeys(linters)]
        /\ ret' = Return([success |-> TRUE, message |-> <<"Added linter: ", name>>])
    /\ pc' = "returned"
    /\ UNCHANGED <<fs, todo, results, spawned, temp_path, fp>>

ListLinters ==
    /\ pc = "idle"
    /\ call' = [op |-> "list_linters"]
    /\ ret' = Return(list_linters(linters))
    /\ pc' = "returned"
    /\ UNCHANGED <<linters, fs, todo, results, spawned, temp_path, lastInv, fp>>

Respond ==
    /\ pc = "returned"
    /\ pc' = "idle"
    /\ call' = NoCall
    /\ todo' = <<>>
    /\ results' = <<>>
    /\ spawned' = <<>>
    /\ ret' = Return(<<>>)
    /\ temp_path' = ""
    /\ UNCHANGED <<linters, fs, lastInv, fp>>

Next ==
    \/ LintFile
    \/ LintCode
    \/ LoopStep
    \/ LintFileReturn
    \/ LintCodeFinally
    \/ AddLinter
    \/ ListLinters
    \/ Respond

Spec == Init /\ [][Next]_vars

----------------------------------------------------------------------------
(* ExternalLinter.run on every bounded process outcome *)

Texts == SeqsUpTo(Chars, MaxOut)

AllProcs ==
    {Exited(rc, out, err) : rc \in {0, 1, -9}, out \in Texts, err \in Texts}
    \cup {Failed(e) : e \in Errors}

InitRun ==
    /\ linters = <<<<"pylint", ExternalLinter("pylint", <<"pylint", "-E">>)>>>>
    /\ fs = {"/a.py"}
    /\ pc = "idle"
    /\ \E proc \in AllProcs :
        call = [op |-> "run", name |-> "pylint", filepath |-> "/a.py", proc |-> proc]
    /\ todo = <<>>
    /\ results = <<>>
    /\ spawned = <<>>
    /\ ret = [kind |-> "pending"]
    /\ temp_path = ""
    /\ lastInv = [n \in {"pylint"} |-> <<"pylint", "-E">>]
    /\ fp = FpIdle

RunCall ==
    /\ pc = "idle"
    /\ call.op = "run"
    /\ ret' = Return(run(DictGet(linters, call.name), call.filepath, call.proc))
    /\ pc' = "returned"
    /\ UNCHANGED <<linters, fs, call, todo, results, spawned, temp_path, lastInv, fp>>

NextRun == RunCall

SpecRun == InitRun /\ [][NextRun]_vars

----------------------------------------------------------------------------
(* fast_power *)

InitPow ==
    /\ linters = <<<<"pylint", ExternalLinter("pylint", <<"pylint", "-E">>)>>>>
    /\ fs = {"/a.py"}
    /\ pc = "idle"
    /\ call = NoCall
    /\ todo = <<>>
    /\ results = <<>>
    /\ spawned = <<>>
    /\ ret = Return(<<>>)
    /\ temp_path = ""
    /\ lastInv = [n \in {"pylint"} |-> <<"pylint", "-E">>]
    /\ \E base \in (-MaxBase)..MaxBase, exponent \in (-1)..MaxExp,
          hasMod \in BOOLEAN, mod \in 1..MaxMod :
        /\ hasMod \/ mod = 1
        /\ fp = [pc |-> "start", base |-> base, exponent |-> exponent,
                 hasMod |-> hasMod, mod |-> mod, result |-> 0, b |-> 0, e |-> 0]

PowStart ==
    /\ fp.pc = "start"
    /\ IF fp.exponent < 0
       THEN fp' = [fp EXCEPT !.pc = "ValueError"]
       ELSE fp' = [fp EXCEPT !.pc = "loop", !.result = 1, !.b = fp.base,
                             !.e = fp.exponent]
    /\ UNCHANGED <<linters, fs, pc, call, todo, results, spawned, ret, temp_path, lastInv>>

Reduce(v, hasMod, mod) == IF hasMod THEN v % mod ELSE v

PowIter ==
    /\ fp.pc = "loop"
    /\ fp.e > 0
    /\ fp' = [fp EXCEPT
                !.result = IF fp.e % 2 = 1
                           THEN Reduce(fp.result * fp.b, fp.hasMod, fp.mod)
                           ELSE fp.result,
                !.b = Reduce(fp.b * fp.b, fp.hasMod, fp.mod),
                !.e = fp.e \div 2]
    /\ UNCHANGED <<linters, fs, pc, call, todo, results, spawned, ret, temp_path, lastInv>>

PowReturn ==
    /\ fp.pc = "loop"
    /\ ~ (fp.e > 0)
    /\ fp' = [fp EXCEPT !.pc = "done"]
    /\ UNCHANGED <<linters, fs, pc, call, todo, results, spawned, ret, temp_path, lastInv>>

NextPow ==
    \/ PowStart
    \/ PowIter
    \/ PowReturn

SpecPow == InitPow /\ [][NextPow]_vars

----------------------------------------------------------------------------
(* Operators the properties are stated with *)

Range(f) == {f[i] : i \in DOMAIN f}

RECURSIVE Join(_)
Join(lines) ==
    IF lines = <<>> THEN <<>>
    ELSE IF Len(lines) = 1 THEN lines[1]
    ELSE lines[1] \o <<"\n">> \o Join(Tail(lines))

Normalize(text) ==
    [i \in 1..Len(text) |-> IF text[i] \in {"\n", "\f"} THEN "\n" ELSE text[i]]

Trimmed(text) ==
    LET keep == {i \in 1..Len(text) : text[i] \notin {" ", "\n", "\f"}} IN
    IF keep = {} THEN <<>>
    ELSE SubSeq(text, CHOOSE i \in keep : \A j \in keep : i <= j,
                      CHOOSE i \in keep : \A j \in keep : j <= i)

RECURSIVE Pow(_, _)
Pow(b, e) == IF e = 0 THEN 1 ELSE b * Pow(b, e - 1)

LastSpawn(name) ==
    spawned[CHOOSE j \in 1..Len(spawned) :
                /\ spawned[j].name = name
                /\ \A k \in (j + 1)..Len(spawned) : spawned[k].name # name]

LintFileDone ==
    pc = "returned" /\ call.op = "lint_file" /\ call.exists

----------------------------------------------------------------------------
(* Properties *)

C2_OverallSuccess ==
    (/\ pc = "returned"
     /\ call.op \in {"lint_file", "lint_code"}
     /\ ret.kind = "return"
     /\ "results" \in DOMAIN ret.value) =>
        (ret.value.success <=>
            \A i \in 1..Len(ret.value.results) : ret.value.results[i][2].success)

\* C2 witness: a returned report that mixes a clean entry with a failed one.
C2_Witness ==
    /\ pc = "returned"
    /\ call.op \in {"lint_file", "lint_code"}
    /\ ret.kind = "return"
    /\ "results" \in DOMAIN ret.value
    /\ ~ ret.value.success
    /\ \E i \in 1..Len(ret.value.results) : ret.value.results[i][2].success
    /\ \E i \in 1..Len(ret.value.results) : ~ ret.value.results[i][2].success

\* C3: whenever lint_code returns or raises, the temporary file created for
\* that call no longer exists.
C3_TempFileRemoved ==
    (pc = "returned" /\ call.op = "lint_code") => temp_path \notin fs

\* C4: add_linter with an empty name or an empty command fails and leaves the
\* list of registered names as it was.
C4_InvalidDefinitionRejected ==
    (/\ pc = "returned"
     /\ call.op = "add_linter"
     /\ (call.name = "" \/ call.command = <<>>)) =>
        /\ ret.kind = "raise"
        /\ list_linters(linters) = call.before

C6_ReleaseSafe ==
    (pc = "returned" /\ call.op = "lint_code" /\ call.gone) => ret.kind = "return"

\* C7: when lint_file is given a selection (the empty one included) on an
\* existing path, the results hold exactly the selected names and no linter
\* outside the selection is run.
C7_ExactlySelected ==
    (LintFileDone /\ call.sel.present) =>
        /\ ret.kind = "return"
        /\ Range(DictKeys(ret.value.results)) = Range(call.sel.names)
        /\ \A j \in 1..Len(spawned) : spawned[j].name \in Range(call.sel.names)

\* C8 as stated: run never raises; exit status 0 gives success with no
\* issues; a nonzero status gives a failed result whose issues are stdout
\* followed by stderr, split into lines; a failure to execute gives a failed
\* result with no issues and a message naming the failure.
C8_RunClassificationUntrimmed ==
    (pc = "returned" /\ call.op = "run") =>
        /\ ret.kind = "return"
        /\ LET p == call.proc
               r == ret.value
           IN  /\ (p.kind = "exited" /\ p.returncode = 0) =>
                      r.success /\ r.issues = <<>>
               /\ (p.kind = "exited" /\ p.returncode # 0) =>
                      ~ r.success /\ r.issues = splitlines(p.stdout \o p.stderr)
               /\ p.kind = "exception" =>
                      /\ ~ r.success
                      /\ r.issues = <<>>
                      /\ r.message = <<"Error running ", call.name, ": ", p.error>>

\* C8 amended: as above, but on a nonzero status the issues are the lines of
\* stdout followed by stderr after leading and trailing whitespace has been
\* removed from the whole text: no line holds a line break, and the lines
\* joined by newlines give back the trimmed text.
C8_RunClassification ==
    (pc = "returned" /\ call.op = "run") =>
        /\ ret.kind = "return"
        /\ LET p == call.proc
               r == ret.value
           IN  /\ (p.kind = "exited" /\ p.returncode = 0) =>
                      r.success /\ r.issues = <<>>
               /\ (p.kind = "exited" /\ p.returncode # 0) =>
                      /\ ~ r.success
                      /\ \A i \in 1..Len(r.issues) :
                            \A k \in 1..Len(r.issues[i]) :
                                r.issues[i][k] \notin {"\n", "\f"}
                      /\ Join(r.issues) = Normalize(Trimmed(p.stdout \o p.stderr))
                      /\ Trimmed(p.stdout \o p.stderr) = <<>> => r.issues = <<>>
               /\ p.kind = "exception" =>
                      /\ ~ r.success
                      /\ r.issues = <<>>
                      /\ r.message = <<"Error running ", call.name, ": ", p.error>>

\* C8 witness: a nonzero exit whose output spans two lines and carries
\* whitespace that the result has lost.
C8_Witness ==
    /\ pc = "returned"
    /\ call.op = "run"
    /\ call.proc.kind = "exited"
    /\ call.proc.returncode # 0
    /\ call.proc.stdout # <<>>
    /\ call.proc.stderr # <<>>
    /\ Len(ret.value.issues) = 2
    /\ Len(Join(ret.value.issues)) < Len(call.proc.stdout \o call.proc.stderr)

\* C9: a name registered with add_linter (or by the constructor) stays
\* listed in every later state, its entry's stored name equals its key and
\* its command is the one most recently registered; list_linters returns it;
\* and lint_file on an existing path with just that name selected runs
\* exactly that command with the path appended.
C9_RegisteredIsRun ==
    \A x \in DOMAIN lastInv \ {""} :
        /\ DictHas(linters, x)
        /\ DictGet(linters, x).name = x
        /\ (pc = "returned" /\ call.op = "list_linters") => x \in Range(ret.value)
        /\ (LintFileDone /\ call.sel = Some(<<x>>)) =>
              /\ Len(spawned) = 1
              /\ spawned[1].argv = lastInv[x] \o <<call.filepath>>

\* C9 witness: the default linter's command was replaced by a later
\* registration, and the replacement is what a lint_file call ran.
C9_Witness ==
    /\ LintFileDone
    /\ call.sel = Some(<<"pylint">>)
    /\ lastInv["pylint"] = <<"echo">>
    /\ Len(linters) > 1
    /\ spawned[1].argv = <<"echo", call.filepath>>

\* C10: fast_power raises ValueError exactly for a negative exponent and
\* otherwise returns (base ** exponent) % mod when mod is given and
\* base ** exponent when it is not.
C10_FastPowerCorrect ==
    /\ fp.pc = "ValueError" => fp.exponent < 0
    /\ fp.pc = "done" =>
          /\ fp.exponent >= 0
          /\ fp.result = IF fp.hasMod
                         THEN Pow(fp.base, fp.exponent) % fp.mod
                         ELSE Pow(fp.base, fp.exponent)

====
